---- MODULE Spec2Model ----
(***************************************************************************)
(* A model of the scientific calculator of Calculator_project.py (class    *)
(* CalculatorEngine and the handlers of CalculatorGUI) and of its older    *)
(* copy Calculater_project.py.                                             *)
(*                                                                         *)
(* Text is a sequence of characters, each character a one-element string.  *)
(* The three keypad characters outside ASCII are written by their code     *)
(* points: "U221A" is the root sign, "U00D7" the multiplication sign and   *)
(* "U00F7" the division sign.                                              *)
(*                                                                         *)
(* calculate is modelled stage by stage: the str.replace calls, the eight  *)
(* re.sub calls (leftmost, non-overlapping, greedy matches) and eval, the  *)
(* last as a tokenizer, parser and evaluator of the Python expressions     *)
(* that can be written with the characters the model reads.                *)
(***************************************************************************)
EXTENDS Integers, Sequences, FiniteSets, TLC

\* display and last_answer are the state of the program: the text of the
\* Entry widget and CalculatorEngine.last_answer.  The other variables record
\* the last handler that ran: its name (op), the display and last_answer it
\* found (expr0, ans0), the outcome of eval when the handler is calculate
\* (result), and the number of handlers run so far (steps).
VARIABLES display, last_answer, op, expr0, ans0, result, steps

vars == <<display, last_answer, op, expr0, ans0, result, steps>>

(***************************************************************************)
(* Characters and text                                                     *)
(***************************************************************************)
Root == "U221A"
Times == "U00D7"
Divide == "U00F7"

Digits == {"0", "1", "2", "3", "4", "5", "6", "7", "8", "9"}

Letters == {"a", "c", "d", "e", "f", "g", "h", "i", "l", "m", "n", "o", "p",
            "q", "r", "s", "t", "E", "I"}

DigitVal(c) ==
    CASE c = "0" -> 0 [] c = "1" -> 1 [] c = "2" -> 2 [] c = "3" -> 3
      [] c = "4" -> 4 [] c = "5" -> 5 [] c = "6" -> 6 [] c = "7" -> 7
      [] c = "8" -> 8 [] c = "9" -> 9

DigitChar(n) ==
    CASE n = 0 -> "0" [] n = 1 -> "1" [] n = 2 -> "2" [] n = 3 -> "3"
      [] n = 4 -> "4" [] n = 5 -> "5" [] n = 6 -> "6" [] n = 7 -> "7"
      [] n = 8 -> "8" [] n = 9 -> "9"

ErrorText == <<"E", "r", "r", "o", "r">>

\* str(math.pi)
PiText == <<"3", ".", "1", "4", "1", "5", "9", "2", "6", "5", "3", "5", "8",
            "9", "7", "9", "3">>

\* s[i..j], empty when i > j
Slice(s, i, j) == SubSeq(s, i, j)

\* s[i:] of Python with i counted from 1
From(s, i) == SubSeq(s, i, Len(s))

\* s.startswith(p, i-1): p occurs in s at position i
StartsAt(s, p, i) ==
    /\ i >= 1
    /\ i + Len(p) - 1 <= Len(s)
    /\ \A k \in 1..Len(p) : s[i + k - 1] = p[k]

\* str.endswith
EndsWith(s, p) == Len(p) <= Len(s) /\ StartsAt(s, p, Len(s) - Len(p) + 1)

\* the least position >= i of a character of s that is in the set cs, 0 if none
RECURSIVE FindChar(_, _, _)
FindChar(s, cs, i) ==
    IF i > Len(s) THEN 0
    ELSE IF s[i] \in cs THEN i
    ELSE FindChar(s, cs, i + 1)

\* the least position >= i of a character of s that is not in cs, Len(s)+1 if none
RECURSIVE SkipChars(_, _, _)
SkipChars(s, cs, i) ==
    IF i > Len(s) THEN i
    ELSE IF s[i] \in cs THEN SkipChars(s, cs, i + 1)
    ELSE i

\* str.replace(c, t) for a one-character c
RECURSIVE Replace(_, _, _)
Replace(s, c, t) ==
    IF s = <<>> THEN <<>>
    ELSE (IF Head(s) = c THEN t ELSE <<Head(s)>>) \o Replace(Tail(s), c, t)

(***************************************************************************)
(* calculate, steps 2 to 8: the rewriting of the display text into the     *)
(* text handed to eval.  The display never holds white space, so each \s*  *)
(* of the patterns matches the empty text.                                 *)
(***************************************************************************)
FloatChars == Digits \cup {"."}

\* Steps 2 and 3: expr.replace(U00D7, "*").replace(U00F7, "/").replace("^", "**")
ReplaceSymbols(expr) ==
    Replace(Replace(Replace(expr, Times, <<"*">>), Divide, <<"/">>),
            "^", <<"*", "*">>)

\* Step 4, the pattern  U221A \( \s* ([^,]+) \s* , \s* ([^)]+) \s* \)  tried at
\* position i: [comma |-> position of the comma, close |-> position of the
\* closing parenthesis], close = 0 when the pattern does not match at i.
\* Group 1 runs to the first comma and group 2 to the first ")" after it.
NthRootMatch(s, i) ==
    IF ~StartsAt(s, <<Root, "(">>, i) THEN [comma |-> 0, close |-> 0]
    ELSE LET j == FindChar(s, {","}, i + 2)
             k == IF j = 0 THEN 0 ELSE FindChar(s, {")"}, j + 1)
         IN  IF j >= i + 3 /\ k >= j + 2
             THEN [comma |-> j, close |-> k]
             ELSE [comma |-> 0, close |-> 0]

\* the replacement  (\2 ** (1/\1))
NthRootRepl(g1, g2) ==
    <<"(">> \o g2 \o <<" ", "*", "*", " ", "(", "1", "/">> \o g1 \o <<")", ")">>

RECURSIVE NthRootSub(_, _)
NthRootSub(s, i) ==
    IF i > Len(s) THEN <<>>
    ELSE LET m == NthRootMatch(s, i)
         IN  IF m.close = 0 THEN <<s[i]>> \o NthRootSub(s, i + 1)
             ELSE NthRootRepl(Slice(s, i + 2, m.comma - 1),
                              Slice(s, m.comma + 1, m.close - 1))
                  \o NthRootSub(s, m.close + 1)

\* Step 5, the pattern  U221A \(? ([0-9.]+) \)?  tried at position i:
\* [from |-> first character of the group, to |-> its last character,
\*  end |-> last character of the match], end = 0 when there is no match.
SqrtMatch(s, i) ==
    IF i > Len(s) \/ s[i] # Root THEN [from |-> 0, to |-> 0, end |-> 0]
    ELSE LET a == IF StartsAt(s, <<"(">>, i + 1)
                     /\ i + 2 <= Len(s) /\ s[i + 2] \in FloatChars
                  THEN i + 2 ELSE i + 1
             e == SkipChars(s, FloatChars, a)
         IN  IF e = a THEN [from |-> 0, to |-> 0, end |-> 0]
             ELSE [from |-> a, to |-> e - 1,
                   end |-> IF StartsAt(s, <<")">>, e) THEN e ELSE e - 1]

MathSqrt == <<"m", "a", "t", "h", ".", "s", "q", "r", "t", "(">>

RECURSIVE SqrtSub(_, _)
SqrtSub(s, i) ==
    IF i > Len(s) THEN <<>>
    ELSE LET m == SqrtMatch(s, i)
         IN  IF m.end = 0 THEN <<s[i]>> \o SqrtSub(s, i + 1)
             ELSE MathSqrt \o Slice(s, m.from, m.to) \o <<")">>
                  \o SqrtSub(s, m.end + 1)

\* Steps 6 to 8, the pattern  name\(([^)]+)\)  tried at position i: the
\* position of the closing parenthesis, 0 when there is no match.  open is
\* the name with its "(".
FuncMatch(s, open, i) ==
    IF ~StartsAt(s, open, i) THEN 0
    ELSE LET k == FindChar(s, {")"}, i + Len(open))
         IN  IF k >= i + Len(open) + 1 THEN k ELSE 0

\* re.sub(name\(([^)]+)\), pre \1 post, s)
RECURSIVE FuncSub(_, _, _, _, _)
FuncSub(s, open, pre, post, i) ==
    IF i > Len(s) THEN <<>>
    ELSE LET k == FuncMatch(s, open, i)
         IN  IF k = 0 THEN <<s[i]>> \o FuncSub(s, open, pre, post, i + 1)
             ELSE pre \o Slice(s, i + Len(open), k - 1) \o post
                  \o FuncSub(s, open, pre, post, k + 1)

MathRadians == <<"m", "a", "t", "h", ".", "r", "a", "d", "i", "a", "n", "s", "(">>
MathDegrees == <<"m", "a", "t", "h", ".", "d", "e", "g", "r", "e", "e", "s", "(">>

SinSub(s) ==
    FuncSub(s, <<"s", "i", "n", "(">>,
            <<"m", "a", "t", "h", ".", "s", "i", "n", "(">> \o MathRadians,
            <<")", ")">>, 1)

CosSub(s) ==
    FuncSub(s, <<"c", "o", "s", "(">>,
            <<"m", "a", "t", "h", ".", "c", "o", "s", "(">> \o MathRadians,
            <<")", ")">>, 1)

TanSub(s) ==
    FuncSub(s, <<"t", "a", "n", "(">>,
            <<"m", "a", "t", "h", ".", "t", "a", "n", "(">> \o MathRadians,
            <<")", ")">>, 1)

AsinSub(s) ==
    FuncSub(s, <<"a", "s", "i", "n", "(">>,
            MathDegrees \o <<"m", "a", "t", "h", ".", "a", "s", "i", "n", "(">>,
            <<")", ")">>, 1)

AcosSub(s) ==
    FuncSub(s, <<"a", "c", "o", "s", "(">>,
            MathDegrees \o <<"m", "a", "t", "h", ".", "a", "c", "o", "s", "(">>,
            <<")", ")">>, 1)

AtanSub(s) ==
    FuncSub(s, <<"a", "t", "a", "n", "(">>,
            MathDegrees \o <<"m", "a", "t", "h", ".", "a", "t", "a", "n", "(">>,
            <<")", ")">>, 1)

LogSub(s) ==
    FuncSub(s, <<"l", "o", "g", "(">>,
            <<"m", "a", "t", "h", ".", "l", "o", "g", "1", "0", "(">>,
            <<")">>, 1)

\* Steps 2 to 8 in the order of the code: the text that reaches eval
Translate(expr) ==
    LogSub(AtanSub(AcosSub(AsinSub(TanSub(CosSub(SinSub(
        SqrtSub(NthRootSub(ReplaceSymbols(expr), 1), 1))))))))

(***************************************************************************)
(* calculate, step 9: the values of eval.                                  *)
(*                                                                         *)
(* A Python int is tracked while its magnitude is at most MaxNum.  A       *)
(* Python float is tracked while it is n/d with d a power of two at most   *)
(* MaxDen and the magnitude of n at most MaxNum: on such operands binary   *)
(* floating point computes without rounding, so the model's exact          *)
(* arithmetic is the arithmetic of the code.  A result outside these       *)
(* bounds, a rounded result, a negative zero, a complex number and the     *)
(* value of a name the model does not interpret are Untracked: they are    *)
(* values of the program the model does not follow.  Raised stands for     *)
(* every exception.  Beyond MaxNum the model follows the powers 2.0 ** e   *)
(* up to the largest float (e <= 1023), their products with a power of two *)
(* and the overflow of such a product to inf.                              *)
(***************************************************************************)
MaxNum == 4096
MaxDen == 64
MaxDigits == 5
MaxTuple == 4

IntV(n) == [t |-> "int", n |-> n, d |-> 1, items |-> <<>>]
FloatV(n, d) == [t |-> "float", n |-> n, d |-> d, items |-> <<>>]
TupleV(xs) == [t |-> "tuple", n |-> 0, d |-> 1, items |-> xs]
EllipsisV == [t |-> "ellipsis", n |-> 0, d |-> 1, items |-> <<>>]
ModuleV == [t |-> "module", n |-> 0, d |-> 1, items |-> <<>>]
FnV(name) == [t |-> "fn", n |-> 0, d |-> 1, items |-> name]
StrV(chars) == [t |-> "str", n |-> 0, d |-> 1, items |-> chars]
\* the float 2.0 ** e for an e with 2^e above MaxNum and e <= 1023, and inf
HugeV(e) == [t |-> "huge", n |-> e, d |-> 1, items |-> <<>>]
InfV == [t |-> "inf", n |-> 1, d |-> 1, items |-> <<>>]
Raised == [t |-> "raised", n |-> 0, d |-> 1, items |-> <<>>]
Untracked == [t |-> "untracked", n |-> 0, d |-> 1, items |-> <<>>]

IsVal(v) == v.t \notin {"raised", "untracked"}
IsNum(v) == v.t \in {"int", "float"}
IsBig(v) == v.t \in {"huge", "inf"}

Abs(n) == IF n < 0 THEN -n ELSE n

RECURSIVE Gcd(_, _)
Gcd(a, b) == IF b = 0 THEN a ELSE Gcd(b, a % b)

RECURSIVE IsPow2(_)
IsPow2(d) == d = 1 \/ (d > 1 /\ d % 2 = 0 /\ IsPow2(d \div 2))

\* the int n, when it is tracked
MkInt(n) == IF Abs(n) <= MaxNum THEN IntV(n) ELSE Untracked

\* the float n/d (d # 0), when it is tracked
MkFloat(n, d) ==
    LET s == IF d < 0 THEN -1 ELSE 1
        g == Gcd(Abs(n), Abs(d))
        nn == (s * n) \div g
        dd == (s * d) \div g
    IN  IF IsPow2(dd) /\ dd <= MaxDen /\ Abs(nn) <= MaxNum
        THEN FloatV(nn, dd) ELSE Untracked

\* floor(n/d) for d # 0
FloorDiv(n, d) == IF d < 0 THEN (-n) \div (-d) ELSE n \div d

\* the root of the perfect square n >= 0, -1 when n is not a perfect square
RECURSIVE SqrtFrom(_, _)
SqrtFrom(n, r) ==
    IF r * r = n THEN r
    ELSE IF r * r > n THEN -1
    ELSE SqrtFrom(n, r + 1)

\* acc * b^e for e >= 0, or MaxNum + 1 as soon as the magnitude exceeds MaxNum
RECURSIVE PowAcc(_, _, _)
PowAcc(b, e, acc) ==
    IF e = 0 THEN acc
    ELSE IF Abs(acc * b) > MaxNum THEN MaxNum + 1
    ELSE PowAcc(b, e - 1, acc * b)

IntPow(b, e) ==
    IF e = 0 THEN 1
    ELSE IF b = 0 THEN 0
    ELSE IF b = 1 THEN 1
    ELSE IF b = -1 THEN (IF e % 2 = 0 THEN 1 ELSE -1)
    ELSE PowAcc(b, e, 1)

\* the float (n/d)^e for an integer e and n # 0
RatPow(n, d, e) ==
    LET pn == IntPow(n, Abs(e))
        pd == IntPow(d, Abs(e))
    IN  IF Abs(pn) > MaxNum \/ pd > MaxNum THEN Untracked
        ELSE IF e >= 0 THEN MkFloat(pn, pd) ELSE MkFloat(pd, pn)

\* the k-th iterated square root of n/d > 0: <<n', d'>>, or <<0, 0>> when a
\* root on the way is irrational
RECURSIVE IterSqrt(_, _, _)
IterSqrt(n, d, k) ==
    IF k = 1 THEN <<n, d>>
    ELSE LET rn == SqrtFrom(n, 0)
             rd == SqrtFrom(d, 0)
         IN  IF rn < 0 \/ rd < 0 THEN <<0, 0>>
             ELSE IterSqrt(rn, rd, k \div 2)

\* float_pow of floatobject.c on x = xn/xd and y = yn/yd
FloatPow(xn, xd, yn, yd) ==
    IF yn = 0 THEN FloatV(1, 1)
    ELSE IF xn = xd THEN FloatV(1, 1)
    ELSE IF xn = 0 THEN (IF yn < 0 THEN Raised ELSE FloatV(0, 1))
    ELSE IF xn = 2 /\ xd = 1 /\ yd = 1 /\ yn > 0 /\ IntPow(2, yn) > MaxNum
         THEN (IF yn <= 1023 THEN HugeV(yn) ELSE Raised)
    ELSE IF yd = 1 THEN RatPow(xn, xd, yn)
    ELSE IF xn < 0 THEN Untracked
    ELSE LET r == IterSqrt(xn, xd, yd)
         IN  IF r[1] = 0 THEN Untracked ELSE RatPow(r[1], r[2], yn)

\* a ** b on numbers
Pow(a, b) ==
    IF a.t = "int" /\ b.t = "int" /\ b.n >= 0
    THEN (LET p == IntPow(a.n, b.n) IN MkInt(p))
    ELSE IF a.t = "int" /\ b.t = "int" /\ a.n = 0 THEN Raised
    ELSE FloatPow(a.n, a.d, b.n, b.d)

\* a division whose zero divisor goes unnoticed and yields 0.0
TrueDivUnchecked(a, b) ==
    IF b.n = 0 THEN MkFloat(0, 1) ELSE MkFloat(a.n * b.d, a.d * b.n)

\* a / b of two numbers: ZeroDivisionError on a zero divisor, else a float
TrueDiv(a, b) ==
    IF b.n = 0 THEN Raised
    ELSE IF a.n = 0 /\ b.n < 0 THEN Untracked
    ELSE MkFloat(a.n * b.d, a.d * b.n)

\* a op b on numbers: int_*/long_* of longobject.c and float_* of floatobject.c
Arith(o, a, b) ==
    LET isF == a.t = "float" \/ b.t = "float"
        mk(n, d) == IF isF THEN MkFloat(n, d) ELSE MkInt(n \div d)
    IN  CASE o = "+" -> mk(a.n * b.d + b.n * a.d, a.d * b.d)
          [] o = "-" -> mk(a.n * b.d - b.n * a.d, a.d * b.d)
          [] o = "*" ->
                IF isF /\ a.n * b.n = 0 /\ (a.n < 0 \/ b.n < 0) THEN Untracked
                ELSE mk(a.n * b.n, a.d * b.d)
          [] o = "/" -> TrueDiv(a, b)
          [] o = "//" ->
                IF b.n = 0 THEN Raised
                ELSE IF isF /\ a.n = 0 /\ b.n < 0 THEN Untracked
                ELSE LET q == FloorDiv(a.n * b.d, a.d * b.n)
                     IN  IF isF THEN MkFloat(q, 1) ELSE MkInt(q)
          [] o = "%" ->
                IF b.n = 0 THEN Raised
                ELSE LET q == FloorDiv(a.n * b.d, a.d * b.n)
                         rn == a.n * b.d - q * b.n * a.d
                     IN  IF isF /\ rn = 0 /\ b.n < 0 THEN Untracked
                         ELSE mk(rn, a.d * b.d)
          [] o = "**" -> Pow(a, b)

\* tuple * int of tupleobject.c
RECURSIVE Repeat(_, _)
Repeat(xs, n) == IF n <= 0 THEN <<>> ELSE xs \o Repeat(xs, n - 1)

TupleRepeat(xs, n) ==
    IF n <= 0 \/ xs = <<>> THEN TupleV(<<>>)
    ELSE IF n > MaxTuple \/ Len(xs) * n > MaxTuple THEN Untracked
    ELSE TupleV(Repeat(xs, n))

\* k with 2^k = n for a power of two n >= 1, else -1; p = 2^k is the candidate
RECURSIVE Log2From(_, _, _)
Log2From(n, p, k) ==
    IF p = n THEN k ELSE IF p > n THEN -1 ELSE Log2From(n, 2 * p, k + 1)

\* float_mul of floatobject.c on 2.0 ** e and the number b: the product
\* overflows to inf without an exception
HugeTimes(e, b) ==
    IF IsNum(b) /\ b.d = 1 /\ b.n >= 1 /\ Log2From(b.n, 1, 0) >= 0
    THEN (IF e + Log2From(b.n, 1, 0) <= 1023
          THEN HugeV(e + Log2From(b.n, 1, 0)) ELSE InfV)
    ELSE Untracked

\* a op b with a float beyond MaxNum among the operands
BigArith(o, a, b) ==
    IF o = "*" /\ a.t = "huge" THEN HugeTimes(a.n, b)
    ELSE IF o = "*" /\ b.t = "huge" THEN HugeTimes(b.n, a)
    ELSE Untracked

\* a op b of the interpreter: the left operand is evaluated first, so the
\* first operand that is no value decides
Bin(o, a, b) ==
    IF ~IsVal(a) THEN a
    ELSE IF ~IsVal(b) THEN b
    ELSE IF IsNum(a) /\ IsNum(b) THEN Arith(o, a, b)
    ELSE IF IsBig(a) \/ IsBig(b) THEN BigArith(o, a, b)
    ELSE IF a.t = "str" \/ b.t = "str" THEN Untracked
    ELSE IF o = "+" /\ a.t = "tuple" /\ b.t = "tuple"
         THEN (IF Len(a.items) + Len(b.items) > MaxTuple THEN Untracked
               ELSE TupleV(a.items \o b.items))
    ELSE IF o = "*" /\ a.t = "tuple" /\ b.t = "int" THEN TupleRepeat(a.items, b.n)
    ELSE IF o = "*" /\ a.t = "int" /\ b.t = "tuple" THEN TupleRepeat(b.items, a.n)
    ELSE Raised

\* +a and -a
Unary(o, a) ==
    IF ~IsVal(a) THEN a
    ELSE IF IsBig(a) THEN Untracked
    ELSE IF ~IsNum(a) THEN Raised
    ELSE IF o = "+" THEN a
    ELSE IF a.t = "float" /\ a.n = 0 THEN Untracked
    ELSE [a EXCEPT !.n = -a.n]

(***************************************************************************)
(* The functions of the module math that the rewriting can name.  The      *)
(* results that binary floating point gives exactly are tracked.           *)
(***************************************************************************)
NameSqrt == <<"s", "q", "r", "t">>
NameSin == <<"s", "i", "n">>
NameCos == <<"c", "o", "s">>
NameTan == <<"t", "a", "n">>
NameAsin == <<"a", "s", "i", "n">>
NameAcos == <<"a", "c", "o", "s">>
NameAtan == <<"a", "t", "a", "n">>
NameLog10 == <<"l", "o", "g", "1", "0">>
NameRadians == <<"r", "a", "d", "i", "a", "n", "s">>
NameDegrees == <<"d", "e", "g", "r", "e", "e", "s">>
NameMath == <<"m", "a", "t", "h">>
NameEllipsis == <<"E", "l", "l", "i", "p", "s", "i", "s">>

MathFns == {NameSqrt, NameSin, NameCos, NameTan, NameAsin, NameAcos,
            NameAtan, NameLog10, NameRadians, NameDegrees}

\* the k with 10^k = n, -1 when n is no power of ten
RECURSIVE Log10From(_, _, _)
Log10From(n, p, k) ==
    IF p = n THEN k
    ELSE IF p > n THEN -1
    ELSE Log10From(n, p * 10, k + 1)

MathSqrtFn(x) ==
    IF x.n < 0 THEN Raised
    ELSE LET rn == SqrtFrom(x.n, 0)
             rd == SqrtFrom(x.d, 0)
         IN  IF rn < 0 \/ rd < 0 THEN Untracked ELSE MkFloat(rn, rd)

MathLog10Fn(x) ==
    IF x.n <= 0 THEN Raised
    ELSE IF x.d # 1 THEN Untracked
    ELSE LET k == Log10From(x.n, 1, 0)
         IN  IF k < 0 THEN Untracked ELSE FloatV(k, 1)

\* math.<name>(*args)
ApplyFn(name, args) ==
    IF Len(args) # 1 THEN Raised
    ELSE LET x == args[1]
         IN  IF IsBig(x) THEN Untracked
             ELSE IF ~IsNum(x) THEN Raised
             ELSE CASE name = NameSqrt -> MathSqrtFn(x)
                    [] name = NameLog10 -> MathLog10Fn(x)
                    [] name \in {NameRadians, NameDegrees, NameSin, NameTan, NameAtan} ->
                          IF x.n = 0 THEN FloatV(0, 1) ELSE Untracked
                    [] name = NameCos ->
                          IF x.n = 0 THEN FloatV(1, 1) ELSE Untracked
                    [] name = NameAsin ->
                          IF Abs(x.n) > x.d THEN Raised
                          ELSE IF x.n = 0 THEN FloatV(0, 1) ELSE Untracked
                    [] name = NameAcos ->
                          IF Abs(x.n) > x.d THEN Raised
                          ELSE IF x.n = x.d THEN FloatV(0, 1) ELSE Untracked

\* f(*args): the callee is evaluated before the arguments
Call(f, args) ==
    IF ~IsVal(f) THEN f
    ELSE IF ~IsVal(args) THEN args
    ELSE IF f.t = "fn" THEN ApplyFn(f.items, args.items)
    ELSE Raised

NameReal == <<"r", "e", "a", "l">>

\* the attributes of an int and of a float that the letters can spell
NumberAttrs(v) ==
    {NameReal, <<"i", "m", "a", "g">>}
        \cup (IF v.t = "int"
              THEN {<<"d", "e", "n", "o", "m", "i", "n", "a", "t", "o", "r">>}
              ELSE {})

\* v.name
Attr(v, name) ==
    IF ~IsVal(v) THEN v
    ELSE IF v.t = "str" \/ IsBig(v) THEN Untracked
    ELSE IF v.t \in {"int", "float"} /\ name \in NumberAttrs(v)
    THEN (IF name = NameReal THEN v ELSE Untracked)
    ELSE IF v.t # "module" THEN Raised
    ELSE IF name \in MathFns THEN FnV(name)
    ELSE Untracked

(***************************************************************************)
(* str(result) of step 10, and the text Tk shows for the result of step    *)
(* 11 (_tkinter turns an int or a float into a Tcl number and a tuple into *)
(* a Tcl list).                                                            *)
(***************************************************************************)
RECURSIVE NatStr(_)
NatStr(n) == IF n < 10 THEN <<DigitChar(n)>> ELSE NatStr(n \div 10) \o <<DigitChar(n % 10)>>

\* the decimal digits of r/d, 0 <= r < d, d a power of two
RECURSIVE FracStr(_, _)
FracStr(r, d) ==
    IF r = 0 THEN <<>>
    ELSE <<DigitChar((r * 10) \div d)>> \o FracStr((r * 10) % d, d)

\* repr of a tracked number
NumStr(v) ==
    LET sign == IF v.n < 0 THEN <<"-">> ELSE <<>>
        a == Abs(v.n)
    IN  IF v.t = "int" THEN sign \o NatStr(a)
        ELSE sign \o NatStr(a \div v.d) \o <<".">>
             \o (IF a % v.d = 0 THEN <<"0">> ELSE FracStr(a % v.d, v.d))

\* whether str and Tk's text of v are modelled
RECURSIVE Shown(_)
Shown(v) ==
    \/ v.t \in {"int", "float", "ellipsis", "str", "inf"}
    \/ v.t = "tuple" /\ \A i \in 1..Len(v.items) : Shown(v.items[i])

RECURSIVE PyStr(_), PyJoin(_, _)
PyStr(v) ==
    CASE v.t \in {"int", "float"} -> NumStr(v)
      [] v.t = "ellipsis" -> NameEllipsis
      [] v.t = "str" -> v.items
      [] v.t = "inf" -> <<"i", "n", "f">>
      [] v.t = "tuple" ->
            IF Len(v.items) = 1 THEN <<"(">> \o PyStr(v.items[1]) \o <<",", ")">>
            ELSE <<"(">> \o PyJoin(v.items, 1) \o <<")">>

PyJoin(xs, i) ==
    IF i > Len(xs) THEN <<>>
    ELSE PyStr(xs[i]) \o (IF i < Len(xs) THEN <<",", " ">> ELSE <<>>) \o PyJoin(xs, i + 1)

RECURSIVE TkStr(_), TkJoin(_, _)
TkStr(v) ==
    CASE v.t \in {"int", "float"} -> NumStr(v)
      [] v.t = "ellipsis" -> NameEllipsis
      [] v.t = "str" -> v.items
      [] v.t = "inf" -> <<"I", "n", "f">>
      [] v.t = "tuple" -> TkJoin(v.items, 1)

\* an element of a Tcl list is braced when it is empty or holds a space
TkJoin(xs, i) ==
    IF i > Len(xs) THEN <<>>
    ELSE LET e == TkStr(xs[i])
             q == IF e = <<>> \/ FindChar(e, {" "}, 1) # 0
                  THEN <<"{">> \o e \o <<"}">> ELSE e
         IN  q \o (IF i < Len(xs) THEN <<" ">> ELSE <<>>) \o TkJoin(xs, i + 1)

(***************************************************************************)
(* calculate, step 9: eval.  The tokenizer and the parser follow Python    *)
(* 3's grammar for the characters the model reads: digits, letters, the    *)
(* space, the quote ' of a string, and  . , ( ) + - * / %  (the            *)
(* two-character operators ** and // included).                            *)
(***************************************************************************)
Quote == "'"

\* characters that no token of Python starts with
InvalidChars == {Root, "$", "?", "!"}
IdentChars == Letters \cup Digits

\* the names that the letters of the keypad and of the texts "Error",
\* "Ellipsis", "inf" and "Inf" can spell and that eval finds: Python's keywords,
\* its builtins, the module's imports and the locals of calculate (math and
\* Ellipsis apart, which the model interprets)
ReservedNames ==
    {<<"a", "i", "t", "e", "r">>, <<"a", "l", "l">>, <<"a", "n", "d">>,
     <<"a", "s">>, <<"a", "s", "c", "i", "i">>,
     <<"a", "s", "s", "e", "r", "t">>, <<"c", "a", "s", "e">>,
     <<"c", "h", "r">>, <<"c", "l", "a", "s", "s">>,
     <<"c", "l", "a", "s", "s", "m", "e", "t", "h", "o", "d">>,
     <<"c", "o", "m", "p", "i", "l", "e">>,
     <<"c", "r", "e", "d", "i", "t", "s">>, <<"d", "e", "l">>,
     <<"d", "e", "f">>, <<"e", "l", "i", "f">>, <<"f", "i", "l", "t", "e", "r">>, <<"f", "l", "o", "a", "t">>,
     <<"f", "o", "r">>, <<"f", "o", "r", "m", "a", "t">>, <<"f", "r", "o", "m">>, <<"i", "f">>, <<"s", "e", "l", "f">>,
     <<"d", "e", "l", "a", "t", "t", "r">>, <<"d", "i", "c", "t">>,
     <<"d", "i", "r">>, <<"e", "l", "s", "e">>,
     <<"g", "e", "t", "a", "t", "t", "r">>,
     <<"h", "a", "s", "a", "t", "t", "r">>, <<"h", "a", "s", "h">>,
     <<"h", "e", "l", "p">>, <<"i", "d">>, <<"i", "m", "p", "o", "r", "t">>,
     <<"i", "n">>, <<"i", "n", "t">>, <<"i", "s">>,
     <<"i", "s", "i", "n", "s", "t", "a", "n", "c", "e">>,
     <<"i", "t", "e", "r">>, <<"I", "m", "p", "o", "r", "t", "E", "r", "r", "o", "r">>,
     <<"I", "n", "d", "e", "n", "t", "a", "t", "i", "o", "n", "E", "r", "r", "o", "r">>,
     <<"l", "e", "n">>,
     <<"l", "i", "c", "e", "n", "s", "e">>, <<"l", "i", "s", "t">>,
     <<"l", "o", "c", "a", "l", "s">>, <<"m", "a", "p">>,
     <<"m", "a", "t", "c", "h">>, <<"m", "i", "n">>,
     <<"n", "o", "n", "l", "o", "c", "a", "l">>, <<"n", "o", "t">>,
     <<"o", "c", "t">>, <<"o", "p", "e", "n">>, <<"o", "r">>,
     <<"o", "r", "d">>, <<"p", "a", "s", "s">>, <<"p", "r", "i", "n", "t">>,
     <<"r", "a", "i", "s", "e">>, <<"r", "a", "n", "g", "e">>, <<"r", "e">>,
     <<"r", "e", "p", "r">>, <<"s", "e", "t">>,
     <<"s", "e", "t", "a", "t", "t", "r">>, <<"s", "l", "i", "c", "e">>,
     <<"s", "o", "r", "t", "e", "d">>,
     <<"s", "t", "a", "t", "i", "c", "m", "e", "t", "h", "o", "d">>,
     <<"s", "t", "r">>}

Tok(k, s) == [k |-> k, s |-> s]
EndTok == Tok("end", <<>>)

\* whether the letter at position i may go on a number that ends right
\* before it: an exponent, a base prefix after a leading 0, or one of the
\* keywords that tokenizer.c (verify_end_of_number) lets follow a number
NumberGoesOn(s, lex, i) ==
    \/ s[i] \in {"e", "E"}
    \/ s[i] = "o" /\ lex[1] = "0"
    \/ StartsAt(s, <<"o", "r">>, i)
    \/ StartsAt(s, <<"a", "n", "d">>, i)
    \/ StartsAt(s, <<"i", "n">>, i)
    \/ StartsAt(s, <<"i", "s">>, i)
    \/ StartsAt(s, <<"i", "f">>, i)
    \/ StartsAt(s, <<"f", "o", "r">>, i)
    \/ StartsAt(s, <<"n", "o", "t">>, i)

\* the tokens of s from position i on.  A token of kind "bad" is a syntax
\* error of the tokenizer and ends the sequence; a token of kind "untracked"
\* is text the model does not read, and ends the sequence too.
RECURSIVE Tokenize(_, _)
Tokenize(s, i) ==
    IF i > Len(s) THEN <<>>
    ELSE LET c == s[i]
         IN  IF c = " " THEN Tokenize(s, i + 1)
             ELSE IF c \in Digits \/ (c = "." /\ i < Len(s) /\ s[i + 1] \in Digits) THEN
                 LET e1 == SkipChars(s, Digits, i)
                     isFloat == e1 <= Len(s) /\ s[e1] = "."
                     e2 == IF isFloat THEN SkipChars(s, Digits, e1 + 1) ELSE e1
                     lex == Slice(s, i, e2 - 1)
                     zeros == SkipChars(s, {"0"}, i)
                 IN  IF e2 <= Len(s) /\ s[e2] \in Letters
                     THEN (IF NumberGoesOn(s, lex, e2)
                           THEN <<Tok("untracked", lex)>> ELSE <<Tok("bad", lex)>>)
                     ELSE IF ~isFloat /\ c = "0" /\ zeros < e2
                     THEN <<Tok("bad", lex)>>
                     ELSE <<Tok(IF isFloat THEN "float" ELSE "int", lex)>>
                          \o Tokenize(s, e2)
             ELSE IF c \in Letters THEN
                 LET e == SkipChars(s, IdentChars, i)
                 IN  IF e <= Len(s) /\ s[e] = Quote
                     THEN <<Tok("untracked", Slice(s, i, e - 1))>>
                     ELSE <<Tok("name", Slice(s, i, e - 1))>> \o Tokenize(s, e)
             ELSE IF c = Quote THEN
                 LET e == FindChar(s, {Quote}, i + 1)
                     n == SkipChars(s, {" "}, e + 1)
                 IN  IF e = 0 THEN <<Tok("bad", <<c>>)>>
                     ELSE IF FindChar(Slice(s, i + 1, e - 1), {"\\"}, 1) # 0
                             \/ (n <= Len(s) /\ s[n] = Quote)
                     THEN <<Tok("untracked", <<c>>)>>
                     ELSE <<Tok("str", Slice(s, i + 1, e - 1))>> \o Tokenize(s, e + 1)
             ELSE IF StartsAt(s, <<".", ".", ".">>, i)
                 THEN <<Tok("op", "...")>> \o Tokenize(s, i + 3)
             ELSE IF StartsAt(s, <<"*", "*">>, i)
                 THEN <<Tok("op", "**")>> \o Tokenize(s, i + 2)
             ELSE IF StartsAt(s, <<"/", "/">>, i)
                 THEN <<Tok("op", "//")>> \o Tokenize(s, i + 2)
             ELSE IF c \in {".", ",", "(", ")", "+", "-", "*", "/", "%"}
                 THEN <<Tok("op", c)>> \o Tokenize(s, i + 1)
             ELSE IF c \in InvalidChars /\ ~StartsAt(s, <<"!", "=">>, i)
                 THEN <<Tok("bad", <<c>>)>>
             ELSE <<Tok("untracked", <<c>>)>>

\* the value of a sequence of decimal digits
RECURSIVE DigitsVal(_)
DigitsVal(ds) ==
    IF ds = <<>> THEN 0
    ELSE DigitsVal(SubSeq(ds, 1, Len(ds) - 1)) * 10 + DigitVal(ds[Len(ds)])

RECURSIVE Pow10(_)
Pow10(k) == IF k = 0 THEN 1 ELSE 10 * Pow10(k - 1)

\* int(lex) and float(lex) of a number token
Literal(tok) ==
    IF Len(tok.s) > MaxDigits THEN Untracked
    ELSE IF tok.k = "int" THEN MkInt(DigitsVal(tok.s))
    ELSE LET dot == FindChar(tok.s, {"."}, 1)
             ip == Slice(tok.s, 1, dot - 1)
             fp == From(tok.s, dot + 1)
         IN  MkFloat(DigitsVal(ip) * Pow10(Len(fp)) + DigitsVal(fp), Pow10(Len(fp)))

\* the token at position i, EndTok after the last one
K(ts, i) == IF i <= Len(ts) THEN ts[i] ELSE EndTok
IsOp(ts, i, o) == K(ts, i).k = "op" /\ K(ts, i).s = o
IsName(ts, i, name) == K(ts, i).k = "name" /\ K(ts, i).s = name

NameIf == <<"i", "f">>
NameElse == <<"e", "l", "s", "e">>

\* the keywords that are operators of an expression and that the model does
\* not interpret
OperatorWords ==
    {<<"a", "n", "d">>, <<"o", "r">>, <<"n", "o", "t">>, <<"i", "n">>,
     <<"i", "s">>, <<"f", "o", "r">>}

\* a parse: ok is FALSE on a syntax error; v is the value of what was
\* parsed, i the position of the next token
R(ok, v, i) == [ok |-> ok, v |-> v, i |-> i]
Fail == R(FALSE, Raised, 0)

\* one more element of a tuple display or of an argument list: kind is
\* "pos" for an expression, "star" for *expression, "kw" for **expression
AddItem(acc, kind, v) ==
    IF ~IsVal(acc) THEN acc
    ELSE IF ~IsVal(v) THEN v
    ELSE IF v.t = "str" THEN Untracked
    ELSE IF kind = "pos"
         THEN (IF Len(acc.items) >= MaxTuple THEN Untracked
               ELSE TupleV(Append(acc.items, v)))
    ELSE IF kind = "star" /\ v.t = "tuple"
         THEN (IF Len(acc.items) + Len(v.items) > MaxTuple THEN Untracked
               ELSE TupleV(acc.items \o v.items))
    ELSE Raised

\* bool(v)
Truthy(v) ==
    CASE v.t \in {"int", "float"} -> v.n # 0
      [] v.t \in {"tuple", "str"} -> v.items # <<>>
      [] OTHER -> TRUE

\* a if c else b: the condition is evaluated first, then the chosen branch
Cond(a, c, b) == IF ~IsVal(c) THEN c ELSE IF Truthy(c) THEN a ELSE b

CondStep(a, c, b) == IF b.ok THEN R(TRUE, Cond(a.v, c.v, b.v), b.i) ELSE b

RECURSIVE ParseSum(_, _), SumAfter(_, _), SumRest(_, _, _), SumStep(_, _, _, _),
          ParseTerm(_, _), TermAfter(_, _), TermRest(_, _, _),
          TermStep(_, _, _, _), ParseFactor(_, _), FactorAfter(_, _),
          ParsePower(_, _), AtomAfter(_, _), PowerAfter(_, _), PowerStep(_, _),
          Trailers(_, _, _), CallAfter(_, _, _), ParseAtom(_, _),
          ParenAfter(_, _, _), CloseParen(_, _), ParseItems(_, _, _, _),
          ItemAfter(_, _, _, _, _), ParseArgs(_, _, _, _),
          ArgAfter(_, _, _, _, _), ParseExpr(_, _), CondAfter(_, _),
          CondElse(_, _, _), ParseItem(_, _, _)

\* expression: sum 'if' sum 'else' expression | sum
ParseExpr(ts, i) == CondAfter(ts, ParseSum(ts, i))

CondAfter(ts, a) ==
    IF a.ok /\ IsName(ts, a.i, NameIf) THEN CondElse(ts, a, ParseSum(ts, a.i + 1))
    ELSE a

CondElse(ts, a, c) ==
    IF c.ok /\ IsName(ts, c.i, NameElse) THEN CondStep(a, c, ParseExpr(ts, c.i + 1))
    ELSE Fail

\* an element of a tuple display: expression, or '*' sum
ParseItem(ts, kind, i) ==
    IF kind = "pos" THEN ParseExpr(ts, i) ELSE ParseSum(ts, i + 1)

\* sum: sum ('+' | '-') term | term
ParseSum(ts, i) == SumAfter(ts, ParseTerm(ts, i))

SumAfter(ts, l) == IF l.ok THEN SumRest(ts, l.v, l.i) ELSE l

SumRest(ts, acc, i) ==
    IF IsOp(ts, i, "+") \/ IsOp(ts, i, "-")
    THEN SumStep(ts, acc, K(ts, i).s, ParseTerm(ts, i + 1))
    ELSE R(TRUE, acc, i)

SumStep(ts, acc, o, r) == IF r.ok THEN SumRest(ts, Bin(o, acc, r.v), r.i) ELSE r

\* term: term ('*' | '/' | '//' | '%') factor | factor
ParseTerm(ts, i) == TermAfter(ts, ParseFactor(ts, i))

TermAfter(ts, l) == IF l.ok THEN TermRest(ts, l.v, l.i) ELSE l

TermRest(ts, acc, i) ==
    IF K(ts, i).k = "op" /\ K(ts, i).s \in {"*", "/", "//", "%"}
    THEN TermStep(ts, acc, K(ts, i).s, ParseFactor(ts, i + 1))
    ELSE R(TRUE, acc, i)

TermStep(ts, acc, o, r) == IF r.ok THEN TermRest(ts, Bin(o, acc, r.v), r.i) ELSE r

\* factor: ('+' | '-') factor | power
ParseFactor(ts, i) ==
    IF IsOp(ts, i, "+") \/ IsOp(ts, i, "-")
    THEN FactorAfter(K(ts, i).s, ParseFactor(ts, i + 1))
    ELSE ParsePower(ts, i)

FactorAfter(o, f) == IF f.ok THEN R(TRUE, Unary(o, f.v), f.i) ELSE f

\* power: primary ['**' factor]
ParsePower(ts, i) == PowerAfter(ts, AtomAfter(ts, ParseAtom(ts, i)))

AtomAfter(ts, a) == IF a.ok THEN Trailers(ts, a.v, a.i) ELSE a

PowerAfter(ts, p) ==
    IF p.ok /\ IsOp(ts, p.i, "**") THEN PowerStep(p, ParseFactor(ts, p.i + 1))
    ELSE p

PowerStep(p, f) == IF f.ok THEN R(TRUE, Bin("**", p.v, f.v), f.i) ELSE f

\* primary: primary '.' NAME | primary '(' [arguments] ')' | atom
Trailers(ts, v, i) ==
    IF IsOp(ts, i, ".")
    THEN (IF K(ts, i + 1).k = "name"
          THEN Trailers(ts, Attr(v, K(ts, i + 1).s), i + 2) ELSE Fail)
    ELSE IF IsOp(ts, i, "(")
    THEN CallAfter(ts, v, ParseArgs(ts, i + 1, TupleV(<<>>), FALSE))
    ELSE R(TRUE, v, i)

CallAfter(ts, v, a) == IF a.ok THEN Trailers(ts, Call(v, a.v), a.i) ELSE a

\* the kind of the argument at position i: "pos" for an expression, "star"
\* for *expression, "kw" for **expression
ArgKind(ts, i) ==
    IF IsOp(ts, i, "**") THEN "kw" ELSE IF IsOp(ts, i, "*") THEN "star" ELSE "pos"

\* the kind of the element of a tuple display at position i
ItemKind(ts, i) == IF IsOp(ts, i, "*") THEN "star" ELSE "pos"

\* arguments: the positional and the starred ones, then the ** ones, with
\* an optional last comma; i is the position after '(' or after a comma
ParseArgs(ts, i, acc, kw) ==
    IF IsOp(ts, i, ")") THEN R(TRUE, acc, i + 1)
    ELSE ArgAfter(ts, acc, kw, ArgKind(ts, i),
                  ParseExpr(ts, IF ArgKind(ts, i) = "pos" THEN i ELSE i + 1))

ArgAfter(ts, acc, kw, kind, e) ==
    IF ~e.ok \/ (kw /\ kind # "kw") THEN Fail
    ELSE IF IsOp(ts, e.i, ",")
    THEN ParseArgs(ts, e.i + 1, AddItem(acc, kind, e.v), kw \/ kind = "kw")
    ELSE IF IsOp(ts, e.i, ")")
    THEN R(TRUE, AddItem(acc, kind, e.v), e.i + 1)
    ELSE Fail

\* the elements of a tuple display after the first comma: i is the position
\* after a comma, star whether *expression is an element (it is one inside
\* parentheses, and none at the top of eval's text)
ParseItems(ts, i, acc, star) ==
    IF K(ts, i).k = "end" \/ IsOp(ts, i, ")") THEN R(TRUE, acc, i)
    ELSE ItemAfter(ts, acc, star, IF star THEN ItemKind(ts, i) ELSE "pos",
                   ParseItem(ts, IF star THEN ItemKind(ts, i) ELSE "pos", i))

ItemAfter(ts, acc, star, kind, e) ==
    IF ~e.ok THEN e
    ELSE IF IsOp(ts, e.i, ",")
    THEN ParseItems(ts, e.i + 1, AddItem(acc, kind, e.v), star)
    ELSE R(TRUE, AddItem(acc, kind, e.v), e.i)

\* the value of a name
NameValue(name) ==
    IF name = NameMath THEN ModuleV
    ELSE IF name = NameEllipsis THEN EllipsisV
    ELSE IF name \in ReservedNames THEN Untracked
    ELSE Raised

\* atom: NUMBER | STRING | NAME | '...' | '(' ')' | '(' expression ')' | tuple
ParseAtom(ts, i) ==
    IF K(ts, i).k \in {"int", "float"} THEN R(TRUE, Literal(K(ts, i)), i + 1)
    ELSE IF K(ts, i).k = "str" THEN R(TRUE, StrV(K(ts, i).s), i + 1)
    ELSE IF IsName(ts, i, NameIf) \/ IsName(ts, i, NameElse) THEN Fail
    ELSE IF K(ts, i).k = "name" THEN R(TRUE, NameValue(K(ts, i).s), i + 1)
    ELSE IF IsOp(ts, i, "...") THEN R(TRUE, EllipsisV, i + 1)
    ELSE IF IsOp(ts, i, "(")
    THEN (IF IsOp(ts, i + 1, ")") THEN R(TRUE, TupleV(<<>>), i + 2)
          ELSE ParenAfter(ts, ItemKind(ts, i + 1),
                          ParseItem(ts, ItemKind(ts, i + 1), i + 1)))
    ELSE Fail

ParenAfter(ts, kind, e) ==
    IF ~e.ok THEN e
    ELSE IF IsOp(ts, e.i, ")")
    THEN (IF kind = "star" THEN Fail ELSE R(TRUE, e.v, e.i + 1))
    ELSE IF IsOp(ts, e.i, ",")
    THEN CloseParen(ts, ParseItems(ts, e.i + 1,
                                   AddItem(TupleV(<<>>), kind, e.v), TRUE))
    ELSE Fail

CloseParen(ts, r) == IF r.ok /\ IsOp(ts, r.i, ")") THEN R(TRUE, r.v, r.i + 1) ELSE Fail

\* the end of eval's text after a parse
AtEnd(ts, r) == IF r.ok /\ K(ts, r.i).k = "end" THEN r ELSE Fail

EvalAfter(ts, e) ==
    IF ~e.ok THEN Fail
    ELSE IF IsOp(ts, e.i, ",")
    THEN AtEnd(ts, ParseItems(ts, e.i + 1, AddItem(TupleV(<<>>), "pos", e.v), FALSE))
    ELSE AtEnd(ts, e)

\* eval: expressions, then the end of the text
ParseEval(ts) == EvalAfter(ts, ParseExpr(ts, 1))

\* the value of a parse: Raised for a syntax error, Untracked for a value
\* whose text the model does not give
Outcome(r) ==
    IF ~r.ok THEN Raised
    ELSE IF IsVal(r.v) /\ ~Shown(r.v) THEN Untracked
    ELSE r.v

EvalTokens(ts) ==
    IF \E i \in 1..Len(ts) : ts[i].k = "bad" THEN Raised
    ELSE IF \E i \in 1..Len(ts) : ts[i].k = "untracked" THEN Untracked
    ELSE IF \E i \in 1..Len(ts) : ts[i].k = "name" /\ ts[i].s \in OperatorWords
    THEN Untracked
    ELSE Outcome(ParseEval(ts))

\* eval(text): the value, Raised for an exception (a SyntaxError included)
\* and Untracked for a value the model does not follow
Eval(text) == EvalTokens(Tokenize(text, 1))

(***************************************************************************)
(* The handlers.  A session is bounded to MaxSteps handler calls.           *)
(*                                                                         *)
(* calculate is modelled where the model follows the value of eval: on the *)
(* texts whose evaluation raises and on those whose value is an int, an    *)
(* exact binary fraction within MaxNum and MaxDen, inf, a string, Ellipsis *)
(* or a tuple of these.  On other texts (an inexact float, a complex        *)
(* number, a name the model does not interpret) the action is not enabled. *)
(***************************************************************************)
MaxSteps == 4

NoResult == [t |-> "none", n |-> 0, d |-> 1, items |-> <<>>]

\* a loop that tries the short names before the long ones
FuncsShortFirst ==
    << <<"s", "i", "n", "(">>, <<"c", "o", "s", "(">>, <<"t", "a", "n", "(">>,
       <<"l", "o", "g", "(">>, <<"a", "s", "i", "n", "(">>,
       <<"a", "c", "o", "s", "(">>, <<"a", "t", "a", "n", "(">> >>

\* the names clear_entry removes as a whole, in the order of its loop
Funcs ==
    << <<"a", "s", "i", "n", "(">>, <<"a", "c", "o", "s", "(">>,
       <<"a", "t", "a", "n", "(">>, <<"s", "i", "n", "(">>,
       <<"c", "o", "s", "(">>, <<"t", "a", "n", "(">>, <<"l", "o", "g", "(">> >>

\* the buttons of create_buttons that the sessions of the model press
Keys ==
    {<<"2">>, <<"0">>, <<".">>, <<"+">>, <<Divide>>, <<Root>>, <<",">>,
     <<"s", "i", "n", "(">>}

\* bookkeeping of every handler call
Step(name) ==
    /\ steps < MaxSteps
    /\ steps' = steps + 1
    /\ op' = name
    /\ expr0' = display
    /\ ans0' = last_answer

\* a key press that also forgets the stored answer
press_forgets_answer(value) ==
    /\ Step("press")
    /\ display' = display \o value
    /\ result' = NoResult
    /\ last_answer' = <<>>

\* CalculatorGUI.press(value): display.insert(tk.END, value)
press(value) ==
    /\ Step("press")
    /\ display' = display \o value
    /\ result' = NoResult
    /\ UNCHANGED last_answer

\* CalculatorGUI.clear_all: the AC button
clear_all ==
    /\ Step("clear_all")
    /\ display' = <<>>
    /\ last_answer' = <<>>
    /\ result' = NoResult

\* CalculatorGUI.clear_entry: the C button
clear_entry ==
    /\ Step("clear_entry")
    /\ LET text == display
           hits == {k \in 1..Len(Funcs) : EndsWith(text, Funcs[k])}
       IN  IF hits # {}
           THEN LET func == Funcs[CHOOSE k \in hits : \A j \in hits : k <= j]
                IN  display' = Slice(text, 1, Len(text) - Len(func))
           ELSE IF text # <<>>
           THEN display' = Slice(text, 1, Len(text) - 1)
           ELSE display' = display
    /\ result' = NoResult
    /\ UNCHANGED last_answer

\* CalculatorGUI.delete_last: the DEL button, text[:-1]
delete_last ==
    /\ Step("delete_last")
    /\ display' = Slice(display, 1, Len(display) - 1)
    /\ result' = NoResult
    /\ UNCHANGED last_answer

\* CalculatorGUI.insert_pi
insert_pi ==
    /\ Step("insert_pi")
    /\ display' = display \o PiText
    /\ result' = NoResult
    /\ UNCHANGED last_answer

\* CalculatorGUI.power
power ==
    /\ Step("power")
    /\ display' = display \o <<"^">>
    /\ result' = NoResult
    /\ UNCHANGED last_answer

\* an Ans button that inserts at the start of the display
insert_ans_at_start ==
    /\ Step("insert_ans")
    /\ display' = last_answer \o display
    /\ result' = NoResult
    /\ UNCHANGED last_answer

\* CalculatorEngine.insert_ans: the Ans button
insert_ans ==
    /\ Step("insert_ans")
    /\ display' = display \o last_answer
    /\ result' = NoResult
    /\ UNCHANGED last_answer

\* a store that is forgotten
StoreAnswerSkipped(value) == UNCHANGED last_answer

\* calculate, step 10: self.last_answer = str(result)
StoreAnswer(value) == last_answer' = PyStr(value)

\* calculate, step 11: the display is emptied and shows the result
ShowResult(value) == display' = TkStr(value)

\* an error text that is inserted without emptying the display first
ShowErrorAfterText ==
    /\ display' = ErrorText \o display
    /\ UNCHANGED last_answer

\* calculate, the except branch: the display is emptied and shows "Error"
ShowError ==
    /\ display' = ErrorText
    /\ UNCHANGED last_answer

\* CalculatorEngine.calculate: the = button
calculate ==
    \E value \in {Eval(Translate(display))} :
        /\ value.t # "untracked"
        /\ Step("calculate")
        /\ result' = value
        /\ IF IsVal(value)
           THEN StoreAnswer(value) /\ ShowResult(value)
           ELSE ShowError

\* Calculater_project.py, clear_all: the display only
Calculater_clear_all ==
    /\ Step("clear_all")
    /\ display' = <<>>
    /\ result' = NoResult
    /\ UNCHANGED last_answer

\* Calculater_project.py, clear_entry: the whole display
Calculater_clear_entry ==
    /\ Step("clear_entry")
    /\ display' = <<>>
    /\ result' = NoResult
    /\ UNCHANGED last_answer

(***************************************************************************)
(* Sessions of Calculator_project.py, from the state after construction    *)
(***************************************************************************)
Init ==
    /\ display = <<>>
    /\ last_answer = <<>>
    /\ op = "init"
    /\ expr0 = <<>>
    /\ ans0 = <<>>
    /\ result = NoResult
    /\ steps = 0

Next ==
    \/ \E value \in Keys : press(value)
    \/ clear_all
    \/ clear_entry
    \/ delete_last
    \/ insert_pi
    \/ power
    \/ insert_ans
    \/ calculate

Spec == Init /\ [][Next]_vars

(***************************************************************************)
(* Sessions of Calculater_project.py: the same engine and handlers, but    *)
(* for clear_all and clear_entry                                           *)
(***************************************************************************)
NextCalculater ==
    \/ \E value \in Keys : press(value)
    \/ Calculater_clear_all
    \/ Calculater_clear_entry
    \/ delete_last
    \/ insert_pi
    \/ power
    \/ insert_ans
    \/ calculate

SpecCalculater == Init /\ [][NextCalculater]_vars

(***************************************************************************)
(* calculate as a function of the text it finds: the display holds any text *)
(* of Inputs (the Entry widget is editable), last_answer is empty or the   *)
(* text of an earlier result, and the = button is pressed.                 *)
(***************************************************************************)
Numbers == {<<"0">>, <<"2">>, <<"3">>, <<"0", "5">>}

Ops == {<<"+">>, <<"-">>, <<Times>>, <<Divide>>, <<"^">>}

Neg(a) == <<"-">> \o a
Paren(a) == <<"(">> \o a \o <<")">>

\* expressions of numbers, the five operators, unary minus and parentheses
ArithInputs ==
    Numbers
    \cup {Neg(a) : a \in Numbers}
    \cup {a \o o \o b : a \in Numbers, o \in Ops, b \in Numbers}
    \cup {Neg(a) \o o \o b : a \in Numbers, o \in Ops, b \in Numbers}
    \cup {a \o o \o Neg(b) : a \in Numbers, o \in Ops, b \in Numbers}
    \cup {a \o o \o b \o q \o c :
             a \in Numbers, o \in Ops, b \in Numbers, q \in Ops, c \in Numbers}
    \cup {Paren(a \o o \o b) \o q \o c :
             a \in Numbers, o \in Ops, b \in Numbers, q \in Ops, c \in Numbers}
    \cup {a \o o \o Paren(b \o q \o c) :
             a \in Numbers, o \in Ops, b \in Numbers, q \in Ops, c \in Numbers}

\* characters that are not on the keypad, between two numbers, and quoted text
ForeignChars == {"%", "$", "?"}

ForeignInputs ==
    {a \o <<f>> \o b : a \in Numbers, f \in ForeignChars, b \in Numbers}
    \cup {<<Quote>> \o w \o <<Quote>> : w \in {ErrorText, <<"2">>}}

\* name(argument) for the seven function keys
FuncArgs ==
    {<<"0">>, <<"1">>, <<"0", ".", "5">>, <<"2">>, <<"-", "1">>,
     <<"1", "0", "0">>, <<"3", "0">>}

FuncInputs == {Funcs[k] \o x \o <<")">> : k \in 1..Len(Funcs), x \in FuncArgs}

\* the root sign with a degree and a radicand
Degrees == {<<"2">>, <<"4">>, <<"3">>, <<"0">>, <<"1", "+", "1">>}

Radicands ==
    {<<"4">>, <<"1", "6">>, <<"2", "7">>, <<"7", "+", "9">>, <<"2", Times, "8">>,
     <<"(", "1", "6", ")">>, <<"-", "4">>, <<"-", "1", "6">>}

NthRootInput(n, x) == <<Root, "(">> \o n \o <<",">> \o x \o <<")">>

NthRootInputs == {NthRootInput(n, x) : n \in Degrees, x \in Radicands}

\* the root sign with one operand: a number or a parenthesized expression
SqrtOperands ==
    {<<"0">>, <<"4">>, <<"1", "6">>, <<"2", "5">>, <<"(", "4", ")">>,
     <<"(", "2", "5", ")">>, <<"(", "9", "+", "1", "6", ")">>,
     <<"(", "2", Times, "8", ")">>, <<"(", "-", "4", ")">>,
     <<"(", "-", "1", "6", ")">>}

SqrtInputs == {<<Root>> \o x : x \in SqrtOperands}

\* a square root followed by a root with a degree: the text of the root sign
\* with a in parentheses, a plus sign, and the root of degree n of x
TwoRootInput(a, n, x) == <<Root>> \o Paren(a) \o <<"+">> \o NthRootInput(n, x)

TwoRootInputs ==
    {TwoRootInput(a, n, x) :
         a \in {<<"0">>, <<"1">>, <<"4">>},
         n \in {<<"2">>, <<"3">>, <<"4">>},
         x \in {<<"0">>, <<"1", "6">>, <<"2", "7">>}}

\* sin, cos and tan of arguments with and without parentheses of their own
TrigArgs ==
    {<<"0">>, <<"3", "0">>, <<"1", "+", "2">>, <<"(", "1", "+", "2", ")">>,
     <<"(", "1", "+", "2", ")", "+", "3">>, <<"2", Times, "(", "1", "+", "2", ")">>,
     <<"(", "1", "+", "2", ")", "-", "3">>}

TrigInput(k, a) == Funcs[k] \o a \o <<")">>

TrigInputs == {TrigInput(k, a) : k \in 4..6, a \in TrigArgs}

\* texts that are no expression
MalformedInputs ==
    {<<>>, <<"2", "+", "+">>, <<"(", "2">>, <<"2", ")">>, <<"2", "(">>,
     <<"1", ".", "2", ".", "3">>, <<"2", ",">>, <<",", "2">>, <<"2", ",", "3">>,
     <<Root>>, <<".">>, ErrorText, <<"2", Times, Times, "3">>,
     <<"6", Divide, Divide, "4">>, <<"1", ",", "2">>, <<" ">>, <<"2", "+">>,
     <<Times, "2">>, <<"(", ")">>, <<"2", "+", ")">>}

Inputs ==
    ArithInputs \cup ForeignInputs \cup FuncInputs \cup NthRootInputs
    \cup SqrtInputs \cup MalformedInputs \cup TwoRootInputs \cup TrigInputs

\* last_answer before the call: none yet, or the text of a result
Answers == {<<>>, <<"5">>}

InitInputs ==
    /\ display \in Inputs
    /\ last_answer \in Answers
    /\ op = "init"
    /\ expr0 = <<>>
    /\ ans0 = <<>>
    /\ result = NoResult
    /\ steps = 0

NextInputs == calculate

SpecInputs == InitInputs /\ [][NextInputs]_vars

(***************************************************************************)
(* The C button on the texts a user can have typed: a start, then a         *)
(* function key or other characters.                                       *)
(***************************************************************************)
EntryStarts == {<<>>, <<"2">>, <<"2", "+">>, <<"a">>, <<"(">>, <<"s", "i", "n", "(">>}

EntryEnds ==
    {Funcs[k] : k \in 1..Len(Funcs)}
    \cup {<<>>, <<"5">>, <<"(">>, <<")">>, <<"s", "i", "n">>, <<"n", "(">>,
          <<"l", "o", "g", "(", "2">>, <<Root, "(">>}

EntryTexts == {a \o b : a \in EntryStarts, b \in EntryEnds}

InitEntries ==
    /\ display \in EntryTexts
    /\ last_answer \in Answers
    /\ op = "init"
    /\ expr0 = <<>>
    /\ ans0 = <<>>
    /\ result = NoResult
    /\ steps = 0

NextEntries == clear_entry

SpecEntries == InitEntries /\ [][NextEntries]_vars

(***************************************************************************)
(* The Ans button after a result: the session is taken up after a          *)
(* successful calculate on a text of TripInputs and any number of DEL or C  *)
(* presses on the result, which leave the first k characters of it.  steps *)
(* counts the calls from there on.                                         *)
(***************************************************************************)
TripInputs ==
    {<<"8">>, <<"0">>, <<"2", "+", "3">>, <<"2", "-", "5">>, <<"2", Times, "8">>,
     <<"3", Divide, "2">>, <<"2", "^", "-", "1">>, <<Root, "1", "6">>,
     <<"2", ".", "0", "^", "1", "0", "2", "3", Times, "2">>}

\* an int, a float or the float inf
IsNumeric(v) == IsNum(v) \/ v.t = "inf"

\* the state after calculate gave r for the text s and k characters of the
\* result are left in the display
TripState(s, r, k) ==
    /\ display = Slice(TkStr(r), 1, k)
    /\ last_answer = PyStr(r)
    /\ op = IF k = Len(TkStr(r)) THEN "calculate" ELSE "delete_last"
    /\ expr0 = IF k = Len(TkStr(r)) THEN s ELSE Slice(TkStr(r), 1, k + 1)
    /\ ans0 = IF k = Len(TkStr(r)) THEN <<>> ELSE PyStr(r)
    /\ result = IF k = Len(TkStr(r)) THEN r ELSE NoResult
    /\ steps = 0

InitTrip ==
    \E s \in TripInputs :
        \E r \in {Eval(Translate(s))} :
            /\ IsNumeric(r)
            /\ \E k \in 0..Len(TkStr(r)) : TripState(s, r, k)

NextTrip ==
    \/ delete_last
    \/ clear_entry
    \/ insert_ans
    \/ calculate

SpecTrip == InitTrip /\ [][NextTrip]_vars

(***************************************************************************)
(* Sessions after a failure: the state right after a failed calculate, then *)
(* the actions that append to the display, and calculate.  The Entry is     *)
(* editable, so the text that failed and the text of an earlier result, of  *)
(* which last_answer is the str, may have been typed.                       *)
(***************************************************************************)
\* a text typed into the Entry: a string literal
StickyTyped ==
    <<Quote, " ", "i", "f", " ", "0", " ", "e", "l", "s", "e", " ", "2", Quote>>

\* the writes of last_answer (line 259) before the failure: none, the
\* result 5, and the result of StickyTyped
StickyAnswers == Answers \cup {PyStr(r) : r \in {Eval(Translate(StickyTyped))}}

\* the texts that the failed calculate met in the display: nothing, an
\* unfinished sum, and the text that the result of StickyTyped left there
StickyTexts ==
    {<<>>, <<"2", "+">>} \cup {TkStr(r) : r \in {Eval(Translate(StickyTyped))}}

\* the state that the except branch of calculate leaves
InitSticky ==
    \E s \in StickyTexts :
        /\ Eval(Translate(s)).t = "raised"
        /\ display = ErrorText
        /\ last_answer \in StickyAnswers
        /\ op = "calculate"
        /\ expr0 = s
        /\ ans0 = last_answer
        /\ result = Raised
        /\ steps = 0

NextSticky ==
    \/ \E value \in Keys : press(value)
    \/ power
    \/ insert_pi
    \/ insert_ans
    \/ calculate

SpecSticky == InitSticky /\ [][NextSticky]_vars

(***************************************************************************)
(* testing.py: an engine constructed with no display, CalculatorEngine(None).*)
(* There is no widget and no text: display stays empty and stands for none. *)
(* A call that ends in an uncaught exception is recorded as a raised result.*)
(***************************************************************************)
\* the methods that class CalculatorEngine defines
EngineMethods == {"__init__", "calculate", "insert_ans"}

\* the expressions of the five tests
TestExprs ==
    {<<"2", "+", "3">>, <<"4", Times, "5">>, <<"2", "^", "3">>,
     <<Root, "2", "5">>, <<"s", "i", "n", "(", "3", "0", ")">>}

\* a call of a method on the engine: AttributeError for a name the class does
\* not define; in a method, self.display.get() and self.display.insert(...)
\* on None raise AttributeError, and in calculate the except branch raises
\* it again on self.display.delete(...), so it leaves the method
EngineCall(name, expr) ==
    /\ steps < MaxSteps
    /\ steps' = steps + 1
    /\ op' = name
    /\ expr0' = expr
    /\ ans0' = last_answer
    /\ result' = Raised
    /\ UNCHANGED <<display, last_answer>>

\* self.engine.evaluate_expression(expr) of the tests
evaluate_expression(expr) ==
    /\ "evaluate_expression" \notin EngineMethods
    /\ EngineCall("evaluate_expression", expr)

\* engine.calculate() without a display
calculate_without_display ==
    /\ "calculate" \in EngineMethods
    /\ EngineCall("calculate", <<>>)

\* engine.insert_ans() without a display
insert_ans_without_display ==
    /\ "insert_ans" \in EngineMethods
    /\ EngineCall("insert_ans", <<>>)

NextTesting ==
    \/ \E expr \in TestExprs \cup FuncInputs \cup SqrtInputs : evaluate_expression(expr)
    \/ calculate_without_display
    \/ insert_ans_without_display

SpecTesting == Init /\ [][NextTesting]_vars

(***************************************************************************)
(* The reference evaluator that spec.md describes: numbers                 *)
(* [0-9]+(\.[0-9]+)?, additive below multiplicative below unary minus      *)
(* below power, power right-associative, values exact rationals.  A result *)
(* is [st, n, d, i]: st is "ok" for the value n/d with the text read up to *)
(* position i, else the kind of failure; "range" stands for a value the    *)
(* bounds MaxNum and MaxDigits leave out or a fractional exponent.         *)
(***************************************************************************)
RefErr(kind) == [st |-> kind, n |-> 0, d |-> 1, i |-> 0]

RefQ(n, d, i) ==
    LET s == IF d < 0 THEN -1 ELSE 1
        g == Gcd(Abs(n), Abs(d))
    IN  IF Abs(n) \div g > MaxNum \/ Abs(d) \div g > MaxNum THEN RefErr("range")
        ELSE [st |-> "ok", n |-> (s * n) \div g, d |-> (s * d) \div g, i |-> i]

RefAt(s, i) == IF i >= 1 /\ i <= Len(s) THEN s[i] ELSE "end"

RefNumber(s, i) ==
    LET e1 == SkipChars(s, Digits, i)
        e2 == SkipChars(s, Digits, e1 + 1)
    IN  IF e1 = i THEN RefErr("syntax")
        ELSE IF RefAt(s, e1) # "."
        THEN (IF e1 - i > MaxDigits THEN RefErr("range")
              ELSE RefQ(DigitsVal(Slice(s, i, e1 - 1)), 1, e1))
        ELSE IF e2 = e1 + 1 \/ RefAt(s, e2) = "." THEN RefErr("lex")
        ELSE IF e2 - i > MaxDigits THEN RefErr("range")
        ELSE RefQ(DigitsVal(Slice(s, i, e1 - 1)) * Pow10(e2 - e1 - 1)
                      + DigitsVal(Slice(s, e1 + 1, e2 - 1)),
                  Pow10(e2 - e1 - 1), e2)

RefArith(o, a, b, i) ==
    CASE o = "+" -> RefQ(a.n * b.d + b.n * a.d, a.d * b.d, i)
      [] o = "-" -> RefQ(a.n * b.d - b.n * a.d, a.d * b.d, i)
      [] o \in {Times, "*"} -> RefQ(a.n * b.n, a.d * b.d, i)
      [] o \in {Divide, "/"} ->
            IF b.n = 0 THEN RefErr("div") ELSE RefQ(a.n * b.d, a.d * b.n, i)
      [] o = "^" ->
            IF b.d # 1 THEN RefErr("range")
            ELSE IF b.n >= 0 THEN RefQ(IntPow(a.n, b.n), IntPow(a.d, b.n), i)
            ELSE IF a.n = 0 THEN RefErr("div")
            ELSE RefQ(IntPow(a.d, -b.n), IntPow(a.n, -b.n), i)

RECURSIVE RefExpr(_, _), RefExprRest(_, _), RefTerm(_, _), RefTermRest(_, _),
          RefUnary(_, _), RefPower(_, _), RefPrimary(_, _)

RefExpr(s, i) ==
    LET l == RefTerm(s, i)
    IN  IF l.st # "ok" THEN l ELSE RefExprRest(s, l)

RefExprRest(s, acc) ==
    IF RefAt(s, acc.i) \in {"+", "-"}
    THEN LET r == RefTerm(s, acc.i + 1)
             v == RefArith(RefAt(s, acc.i), acc, r, r.i)
         IN  IF r.st # "ok" THEN r
             ELSE IF v.st # "ok" THEN v
             ELSE RefExprRest(s, v)
    ELSE acc

RefTerm(s, i) ==
    LET l == RefUnary(s, i)
    IN  IF l.st # "ok" THEN l ELSE RefTermRest(s, l)

RefTermRest(s, acc) ==
    IF RefAt(s, acc.i) \in {Times, Divide, "*", "/"}
    THEN LET r == RefUnary(s, acc.i + 1)
             v == RefArith(RefAt(s, acc.i), acc, r, r.i)
         IN  IF r.st # "ok" THEN r
             ELSE IF v.st # "ok" THEN v
             ELSE RefTermRest(s, v)
    ELSE acc

RefUnary(s, i) ==
    IF RefAt(s, i) = "-"
    THEN LET u == RefUnary(s, i + 1)
         IN  IF u.st # "ok" THEN u ELSE RefQ(-u.n, u.d, u.i)
    ELSE RefPower(s, i)

RefPower(s, i) ==
    LET b == RefPrimary(s, i)
        e == RefUnary(s, b.i + 1)
    IN  IF b.st # "ok" \/ RefAt(s, b.i) # "^" THEN b
        ELSE IF e.st # "ok" THEN e
        ELSE RefArith("^", b, e, e.i)

RefPrimary(s, i) ==
    IF RefAt(s, i) = "("
    THEN LET e == RefExpr(s, i + 1)
         IN  IF e.st # "ok" THEN e
             ELSE IF RefAt(s, e.i) = ")" THEN [e EXCEPT !.i = e.i + 1]
             ELSE RefErr("syntax")
    ELSE RefNumber(s, i)

RefEval(s) ==
    LET e == RefExpr(s, 1)
    IN  IF e.st = "ok" /\ e.i <= Len(s) THEN RefErr("syntax") ELSE e

\* the k-th root of n >= 0 when it is an integer, else -1; r is the candidate
RECURSIVE RefRootFrom(_, _, _)
RefRootFrom(n, k, r) ==
    IF IntPow(r, k) = n THEN r
    ELSE IF IntPow(r, k) > n THEN -1
    ELSE RefRootFrom(n, k, r + 1)

\* the k-th root of the reference value v >= 0, k a positive integer
RefRoot(v, k) ==
    LET rn == IF k = 1 THEN v.n ELSE RefRootFrom(v.n, k, 0)
        rd == IF k = 1 THEN v.d ELSE RefRootFrom(v.d, k, 0)
    IN  IF rn < 0 \/ rd < 0 THEN RefErr("range") ELSE RefQ(rn, rd, v.i)

\* the result of calculate is the number of the reference value ref
NumEq(v, ref) == IsNum(v) /\ v.n * ref.d = ref.n * v.d

(***************************************************************************)
(* The claims                                                              *)
(***************************************************************************)
Pi == "U03C0"

\* the characters of the calculator alphabet, the letters of the function
\* names apart
KeypadChars ==
    Digits \cup {".", ",", "(", ")", "+", "-", "*", "/", Times, Divide, "^",
                 Root, Pi}

\* position i of s lies in one of the seven function names
InFuncName(s, i) ==
    \E k \in 1..Len(Funcs), j \in 1..i :
        StartsAt(s, Funcs[k], j) /\ i < j + Len(Funcs[k])

HasForeign(s) ==
    \E i \in 1..Len(s) : s[i] \notin KeypadChars /\ ~InFuncName(s, i)

\* C1: a text with a character outside the calculator alphabet is rejected:
\* after calculate the display shows "Error" and last_answer is unchanged.
C1_ForeignRejected ==
    op = "calculate" /\ HasForeign(expr0)
        => display = ErrorText /\ last_answer = ans0

\* C2: after a successful calculate, last_answer is str(result) of the value
\* that eval gave for the text calculate found, the display shows that same
\* value, and for a number the two texts are the same.
C2_AnswerIsResult ==
    op = "calculate" /\ IsVal(result)
        => /\ result = Eval(Translate(expr0))
           /\ last_answer = PyStr(result)
           /\ display = TkStr(result)
           /\ (IsNum(result) => display = last_answer)

\* C2, its case: a successful calculate that overwrites an earlier answer
C2_Witness ==
    /\ op = "calculate"
    /\ IsNum(result)
    /\ ans0 # <<>>
    /\ last_answer # ans0

\* C3: after clear_all the display and last_answer are empty.
C3_ClearAllResets == op = "clear_all" => display = <<>> /\ last_answer = <<>>

\* C4: whenever calculate fails, the display holds exactly "Error".
C4_FailureShowsError ==
    op = "calculate" /\ result.t = "raised" => display = ErrorText

\* C4, its case: a division by zero, with an expression in the display
C4_Witness ==
    /\ op = "calculate"
    /\ expr0 = <<"2", Divide, "0">>
    /\ result.t = "raised"
    /\ display = ErrorText

\* C5: whenever a calculate call ends with the display showing "Error",
\* last_answer has the value it had before the call.
C5_ErrorKeepsAnswer ==
    op = "calculate" /\ display = ErrorText => last_answer = ans0

\* C6: on an arithmetic expression that the reference evaluator gives a
\* value, calculate yields that value.
C6_MatchesReference ==
    op = "calculate" /\ expr0 \in ArithInputs /\ RefEval(expr0).st = "ok"
        => NumEq(result, RefEval(expr0))

\* asin, acos and atan of arguments in the domain of all three
InverseInputs ==
    {Funcs[k] \o x \o <<")">> :
         k \in 1..3, x \in {<<"0">>, <<"1">>, <<"0", ".", "5">>}}

\* C7: calculate on asin(x), acos(x), atan(x) with x in the domain succeeds
\* with a number.
C7_InverseSucceeds ==
    op = "calculate" /\ expr0 \in InverseInputs => IsNum(result)

\* the root of degree n of x, when the reference values of n and x give an
\* exact one
NthRootRef(n, x) ==
    IF /\ RefEval(n).st = "ok" /\ RefEval(n).d = 1 /\ RefEval(n).n >= 1
       /\ RefEval(x).st = "ok" /\ RefEval(x).n >= 0
    THEN RefRoot(RefEval(x), RefEval(n).n)
    ELSE RefErr("range")

\* C8: calculate on the root sign with a degree and a radicand, both
\* sub-expressions, yields value(radicand) raised to 1/value(degree).
C8_NthRoot ==
    op = "calculate"
        => \A n \in Degrees, x \in Radicands :
               expr0 = NthRootInput(n, x) /\ NthRootRef(n, x).st = "ok"
                   => NumEq(result, NthRootRef(n, x))

\* C9: calculate on the root sign with a number or a parenthesized
\* expression yields the square root of its value.
C9_Sqrt ==
    op = "calculate"
        => \A x \in SqrtOperands :
               expr0 = <<Root>> \o x /\ NthRootRef(<<"2">>, x).st = "ok"
                   => NumEq(result, NthRootRef(<<"2">>, x))

\* the square root and the roots of even degree of a negative number
NegativeRootInputs ==
    {<<Root>> \o Paren(Neg(x)) : x \in {<<"4">>, <<"1", "6">>}}
    \cup {NthRootInput(n, Neg(x)) :
              n \in {<<"2">>, <<"4">>}, x \in {<<"4">>, <<"1", "6">>}}

\* C10: calculate on the square root or an even root of a negative number
\* fails: the display shows "Error" and last_answer is unchanged.
C10_NegativeRootFails ==
    op = "calculate" /\ expr0 \in NegativeRootInputs
        => display = ErrorText /\ last_answer = ans0

\* C11: a malformed text over the calculator alphabet (an unexpected token, an
\* unmatched parenthesis, a missing operand, two adjacent binary operators,
\* tokens after a complete expression, the empty or blank text) makes
\* calculate show "Error" and produce no result.
C11_MalformedFails ==
    op = "calculate" /\ expr0 \in MalformedInputs \ {ErrorText}
        => display = ErrorText /\ ~IsVal(result)

\* the arithmetic texts in which a division has a right operand of value 0
DivByZeroInputs ==
    {s \in ArithInputs :
         RefEval(s).st = "div" /\ \E i \in 1..Len(s) : s[i] = Divide}

\* C12: a division whose right operand evaluates to exactly 0 makes calculate
\* fail: the display shows "Error" and last_answer is unchanged.
C12_DivisionByZeroFails ==
    op = "calculate" /\ expr0 \in DivByZeroInputs
        => result.t = "raised" /\ display = ErrorText /\ last_answer = ans0

\* C12, its case: a divisor that is an expression of value 0, with an answer
\* stored before the call
C12_Witness ==
    /\ op = "calculate"
    /\ expr0 = <<"3", Divide, "(", "2", "-", "2", ")">>
    /\ ans0 = <<"5">>
    /\ last_answer = <<"5">>
    /\ display = ErrorText

\* C13: on an engine constructed with no display, evaluate_expression(expr)
\* returns the numeric value of the expression (5 for the "2+3" of the first
\* test) and touches nothing but last_answer.
C13_EngineEvaluates ==
    op = "evaluate_expression" /\ expr0 \in TestExprs
        => /\ IsNum(result)
           /\ (expr0 = <<"2", "+", "3">> => result = IntV(5))
           /\ display = <<>>

ErrorSamples ==
    {<<"2", "$", "3">>, <<"2", "+", "+">>, <<"2", Divide, "0">>,
     <<"l", "o", "g", "(", "0", ")">>}

\* all that a calculate call on text leaves to observe: the display and
\* last_answer (the method returns None and its except clause binds nothing)
CalcOutcome(text, answer) ==
    LET v == Eval(Translate(text))
    IN  IF IsVal(v) THEN <<TkStr(v), PyStr(v)>> ELSE <<ErrorText, answer>>

\* C15: a lexical error, a syntax error, a division by zero and a domain
\* error are distinguishable outcomes of an evaluation: what calculate leaves
\* after a failure of one kind differs from what it leaves after the others.
C15_TypedErrors ==
    op = "calculate" /\ expr0 \in ErrorSamples
        => \A s \in ErrorSamples \ {expr0} :
               CalcOutcome(s, ans0) # <<display, last_answer>>

\* the sum of the square root of a and the root of degree n of x
TwoRootRef(a, n, x) ==
    IF NthRootRef(<<"2">>, a).st = "ok" /\ NthRootRef(n, x).st = "ok"
    THEN RefArith("+", NthRootRef(<<"2">>, a), NthRootRef(n, x), 0)
    ELSE RefErr("range")

\* C16: a comma in a later parenthesis group does not turn an earlier square
\* root into a root with a degree: calculate on the square root of a plus the
\* root of degree n of x yields the sum of the two roots.
C16_RootsKeptApart ==
    op = "calculate"
        => \A a \in {<<"0">>, <<"1">>, <<"4">>},
              n \in {<<"2">>, <<"3">>, <<"4">>},
              x \in {<<"0">>, <<"1", "6">>, <<"2", "7">>} :
               expr0 = TwoRootInput(a, n, x) /\ TwoRootRef(a, n, x).st = "ok"
                   => NumEq(result, TwoRootRef(a, n, x))

\* the text that applies math.sin, math.cos or math.tan (k = 4, 5, 6 in Funcs)
\* to the radians of the whole argument a
WholeArgument(k, a) ==
    <<"m", "a", "t", "h", ".">> \o Funcs[k]
        \o MathRadians \o ReplaceSymbols(a) \o <<")", ")">>

\* C17: for sin, cos and tan the argument is the whole expression up to the
\* matching closing parenthesis, and its whole value is converted to radians
\* before the function is applied: the text that calculate evaluates for the
\* display is the function of math.radians of that whole argument.
C17_WholeArgumentInRadians ==
    \A k \in 4..6, a \in TrigArgs :
        display = TrigInput(k, a) => Translate(display) = WholeArgument(k, a)

\* the length of the longest of the seven function prefixes that text ends
\* with, 0 if it ends with none
LongestFuncEnd(text) ==
    LET lens == {Len(Funcs[k]) : k \in {j \in 1..Len(Funcs) : EndsWith(text, Funcs[j])}}
    IN  IF lens = {} THEN 0 ELSE CHOOSE n \in lens : \A m \in lens : m <= n

\* C18: clear_entry removes the whole longest function prefix that the text
\* ends with; otherwise exactly the last character; nothing on an empty
\* display.  The rest of the text and last_answer stay as they are.
C18_ClearEntryRemovesUnit ==
    op = "clear_entry"
        => /\ display =
                  IF LongestFuncEnd(expr0) > 0
                  THEN SubSeq(expr0, 1, Len(expr0) - LongestFuncEnd(expr0))
                  ELSE IF expr0 = <<>> THEN <<>>
                  ELSE SubSeq(expr0, 1, Len(expr0) - 1)
           /\ last_answer = ans0

\* C18, its case: a text ending in "asin(" loses the five characters
C18_Witness ==
    /\ op = "clear_entry"
    /\ expr0 = <<"2", "+", "a", "s", "i", "n", "(">>
    /\ display = <<"2", "+">>

C20_AnsRoundTrip ==
    [][op = "insert_ans" /\ expr0 = <<>> /\ ans0 # <<>> /\ op' = "calculate"
           => /\ IsNumeric(result')
              /\ PyStr(result') = last_answer
              /\ last_answer' = last_answer]_vars

\* C21: calculate is idempotent on a result: when a calculate that succeeded
\* with a numeric result (an int, a float, inf included) is followed at once
\* by another calculate, the second one succeeds with a numeric result too
\* and leaves the display and last_answer as the first one left them.
C21_CalculateIdempotent ==
    [][op = "calculate" /\ IsNumeric(result) /\ op' = "calculate"
           => /\ IsNumeric(result')
              /\ display' = display
              /\ last_answer' = last_answer]_vars

\* C22: a failure is sticky: in a session that starts right after a failed
\* calculate and goes on with appending actions (press, power, insert_pi,
\* insert_ans) and calculate only, every calculate that meets a display
\* still beginning with the text Error fails again, shows exactly Error and
\* leaves last_answer unchanged.
C22_FailureSticky ==
    [][StartsAt(display, ErrorText, 1) /\ op' = "calculate"
           => /\ result' = Raised
              /\ display' = ErrorText
              /\ last_answer' = last_answer]_vars

====
